---- MODULE Spec2Model ----
(***************************************************************************)
(* NeuronGuessr: the round state machine (js/game-state.js), the scoring    *)
(* functions it calls (js/scoring.js), the skeleton parser                 *)
(* (js/swc-parser.js), the game flow of the page (js/main.js) and the      *)
(* score submission of the worker (cors-proxy/worker.js).                  *)
(*                                                                         *)
(* A neuron of a manifest is the record [file |-> f]; a position is a      *)
(* triple of integers; JavaScript's null is NULL (the empty tuple), a      *)
(* nullable number n is the 1-tuple Num(n), and a read past the end of an  *)
(* array is UNDEFINED.                                                     *)
(***************************************************************************)
EXTENDS Integers, Sequences, FiniteSets, TLC

\* ---------------------------------------------------------------- bounds
\* neuron files 1..NumFiles exist
NumFiles == 10
\* the shuffle draws rotate the array by 0..MaxShift places
MaxShift == 1
\* a game is explored up to MaxStrays calls of submitRound or nextRound made
\* out of the order the page makes them in
MaxStrays == 2

\* ------------------------------------------------------- program constants
ROUNDS_PER_GAME == 5
MAX_LOCATION_POINTS == 5000
MAX_SYNAPSE_POINTS == 5000

NULL == <<>>
UNDEFINED == "undefined"
Num(n) == <<n>>

\* ------------------------------------------------------------ scoring.js
\* Math.sqrt on the sums of squares the position grid produces (all of them
\* perfect squares)
Sqrt(n) == CHOOSE r \in 0..n : r * r = n

euclideanDistance(a, b) ==
    LET dx == a[1] - b[1]
        dy == a[2] - b[2]
        dz == a[3] - b[3]
    IN  Sqrt(dx * dx + dy * dy + dz * dz)

\* Math.round(5000 * Math.exp(-(3.5 * d / 16)^2)) for d = 0..16, and 0 beyond
GaussPoints16 ==
    <<5000, 4766, 4129, 3250, 2325, 1512, 893, 479, 234, 104, 42, 15, 5, 2,
      0, 0, 0>>

\* Math.round(MAX_LOCATION_POINTS * Math.exp(-(r * r))), r = 3.5 * d / D
GaussPoints(distance, maxDistance) ==
    IF distance = 0 THEN MAX_LOCATION_POINTS
    ELSE IF maxDistance = 16 /\ distance <= 16 THEN GaussPoints16[distance + 1]
    ELSE 0

computeLocationScore(guess, answer, maxDistance) ==
    LET distance == euclideanDistance(guess, answer)
    IN  [score |-> GaussPoints(distance, maxDistance), distance |-> distance]

\* Math.round(5000 * Math.exp(-1.5 * |ln(guess / actual)|)) by the factor
\* max/min of the two counts: 1 -> 5000, 2 -> 1768, 4 -> 625
RatioPoints(guess, actual) ==
    LET hi == IF guess > actual THEN guess ELSE actual
        lo == IF guess > actual THEN actual ELSE guess
    IN  IF hi = lo THEN MAX_SYNAPSE_POINTS
        ELSE IF hi = 2 * lo THEN 1768
        ELSE IF hi = 4 * lo THEN 625
        ELSE 0

\* guess <= 0 in JavaScript: null converts to +0
LeqZero(v) == IF v = NULL THEN TRUE ELSE v[1] <= 0

computeSynapseScore_NoGuard(guess, actual) ==
    IF guess = NULL THEN [score |-> 0]
    ELSE [score |-> RatioPoints(guess[1], actual)]

computeSynapseScore(guess, actual) ==
    IF LeqZero(guess) \/ actual <= 0
    THEN [score |-> 0]
    ELSE [score |-> RatioPoints(guess[1], actual)]

mirrorX(pos, midlineX) == <<2 * midlineX - pos[1], pos[2], pos[3]>>

MirrorWins_Tie(loc, locMirrored) == locMirrored.score >= loc.score

\* if (locMirrored.score > loc.score)
MirrorWins(loc, locMirrored) == locMirrored.score > loc.score

computeScore(posGuess, posAnswer, maxDistance, synapseGuess, synapseActual, midlineX) ==
    LET loc == computeLocationScore(posGuess, posAnswer, maxDistance)
        mirrored == mirrorX(posAnswer, midlineX[1])
        locMirrored == computeLocationScore(posGuess, mirrored, maxDistance)
        useMirror == IF midlineX = NULL THEN FALSE
                     ELSE MirrorWins(loc, locMirrored)
        bestLoc == IF useMirror THEN locMirrored ELSE loc
        usedAnswer == IF useMirror THEN mirrored ELSE posAnswer
        syn == computeSynapseScore(synapseGuess, synapseActual)
    IN  [locationScore |-> bestLoc.score,
         synapseScore |-> syn.score,
         score |-> bestLoc.score + syn.score,
         distance |-> bestLoc.distance,
         usedAnswer |-> usedAnswer]

\* ------------------------------------------------------------ inputs
Neuron(f) == [file |-> f]

Range(a, b) == [i \in 1..(b - a + 1) |-> Neuron(a + i - 1)]

\* manifests handed to startNewGame: an exact game's worth, a large one, one
\* overlapping the first in a single neuron, a short one, one naming a file twice
Pools ==
    { Range(1, ROUNDS_PER_GAME),
      Range(1, NumFiles),
      Range(ROUNDS_PER_GAME, NumFiles),
      Range(1, 3),
      <<Neuron(1)>> \o Range(1, ROUNDS_PER_GAME) }

GamePools == { Range(1, ROUNDS_PER_GAME) }

GuessPositions == { <<8, 0, 0>> }
AnswerPositions == { <<0, 0, 0>> }
SynapseGuesses == { Num(100) }
SynapseActuals == { 100 }
MaxDistances == { 16 }
MidlineXs == { Num(4) }

\* ------------------------------------------------------------ game-state.js
VARIABLES
    seenNeuronFiles,      \* this._seenNeuronFiles
    currentRound,
    roundScores,
    totalScore,
    selectedNeurons,
    currentGuess,
    currentSynapseGuess,
    phase,
    call,                 \* the last call made on the instance and what it returned
    strays,               \* calls of the game made out of the page's order
    rows,                 \* the skeleton rows handed to the parser
    columns,              \* the column names handed to the parser
    somaLocation,         \* metadata.somaLocation handed to the parser
    neuron,               \* what parseSkeletonToNeuron returned or threw
    graph,                \* what a skeleton builder returned
    scoreArgs,            \* the arguments of a computeScore call
    scoreResult,          \* what that call returned
    screen,               \* the screen that showScreen made active
    loadingText,          \* $loadingText.textContent
    task,                 \* where the page's running async handler waits
    gameMode,
    manifest,
    currentNeuronData,
    stored,               \* localStorage item daily_result_<today>
    signedIn,             \* isSignedIn()
    kv,                   \* the key-value store env.SCORES of the worker
    reqs,                 \* the submitScore requests the worker is handling
    now                   \* Date.now() at the worker

gameVars == <<seenNeuronFiles, currentRound, roundScores, totalScore,
              selectedNeurons, currentGuess, currentSynapseGuess, phase, call,
              strays>>

parserVars == <<rows, columns, somaLocation, neuron, graph>>

scoreVars == <<scoreArgs, scoreResult>>

pageVars == <<screen, loadingText, task, gameMode, manifest, currentNeuronData,
              stored, signedIn>>
workerVars == <<kv, reqs, now>>
vars == <<gameVars, parserVars, scoreVars, pageVars, workerVars>>

Call(op, ret) == [op |-> op, ret |-> ret, pool |-> <<>>, seenBefore |-> {}]

Files(s) == { s[i].file : i \in 1..Len(s) }

\* neurons.filter(n => !this._seenNeuronFiles.has(n.file))
RECURSIVE Unseen(_, _)
Unseen(neurons, seen) ==
    IF neurons = <<>> THEN <<>>
    ELSE (IF Head(neurons).file \in seen THEN <<>> ELSE <<Head(neurons)>>)
         \o Unseen(Tail(neurons), seen)

Rotate(s, k) == [i \in 1..Len(s) |-> s[((i - 1 + k) % Len(s)) + 1]]
Reverse(s) == [i \in 1..Len(s) |-> s[Len(s) + 1 - i]]

\* the outcomes of Math.random() that drive the comparator
Draws == [shift : 0..MaxShift, rev : BOOLEAN]

\* available.sort(() => Math.random() - 0.5): a permutation of the array picked
\* by the random outcomes
Shuffled(available, draw) ==
    IF available = <<>> THEN <<>>
    ELSE LET r == Rotate(available, draw.shift)
         IN  IF draw.rev THEN Reverse(r) ELSE r

Slice_Short(s, n) == SubSeq(s, 1, IF Len(s) < n - 1 THEN Len(s) ELSE n - 1)

\* shuffled.slice(0, ROUNDS_PER_GAME)
Slice(s, n) == SubSeq(s, 1, IF Len(s) < n THEN Len(s) ELSE n)

PoolExhausted(available) == Len(available) < ROUNDS_PER_GAME

Available_Unfiltered(neurons, seen) == neurons

\* the pool the shuffle works on
Available(neurons, seen) ==
    IF PoolExhausted(Unseen(neurons, seen)) THEN neurons ELSE Unseen(neurons, seen)

SeenAfterClear_Never(neurons, seen) == seen

\* the seen-set after the optional clear
SeenAfterClear(neurons, seen) ==
    IF PoolExhausted(Unseen(neurons, seen)) THEN {} ELSE seen

GameInit ==
    /\ seenNeuronFiles = {}
    /\ currentRound = 0
    /\ roundScores = <<>>
    /\ totalScore = 0
    /\ selectedNeurons = <<>>
    /\ currentGuess = NULL
    /\ currentSynapseGuess = NULL
    /\ phase = "start"
    /\ call = Call("constructor", UNDEFINED)
    /\ strays = 0

\* no skeleton has been handed to the parser
ParserIdle ==
    /\ rows = <<>>
    /\ columns = NULL
    /\ somaLocation = NULL
    /\ neuron = NULL
    /\ graph = NULL

\* computeScore has not been called
ScoreIdle ==
    /\ scoreArgs = NULL
    /\ scoreResult = NULL

\* the page is not part of the run
PageIdle ==
    /\ screen = NULL
    /\ loadingText = NULL
    /\ task = NULL
    /\ gameMode = NULL
    /\ manifest = NULL
    /\ currentNeuronData = NULL
    /\ stored = NULL
    /\ signedIn = NULL

\* the worker is not part of the run
WorkerIdle ==
    /\ kv = NULL
    /\ reqs = NULL
    /\ now = NULL

Init == GameInit /\ ParserIdle /\ ScoreIdle /\ PageIdle /\ WorkerIdle

Reset ==
    /\ currentRound' = 0
    /\ roundScores' = <<>>
    /\ totalScore' = 0
    /\ selectedNeurons' = <<>>
    /\ currentGuess' = NULL
    /\ currentSynapseGuess' = NULL
    /\ phase' = "start"
    /\ call' = Call("reset", UNDEFINED)
    /\ strays' = 0
    /\ UNCHANGED <<seenNeuronFiles, parserVars, scoreVars, pageVars, workerVars>>

\* startNewGame(neurons), the shuffle driven by draw
startNewGame(neurons, draw) ==
    LET available == Available(neurons, seenNeuronFiles)
        selected == Slice(Shuffled(available, draw), ROUNDS_PER_GAME)
    IN  /\ currentRound' = 0
        /\ roundScores' = <<>>
        /\ totalScore' = 0
        /\ currentGuess' = NULL
        /\ currentSynapseGuess' = NULL
        /\ selectedNeurons' = selected
        /\ seenNeuronFiles' =
               SeenAfterClear(neurons, seenNeuronFiles) \cup Files(selected)
        /\ phase' = "guessing"
        /\ call' = [op |-> "startNewGame", ret |-> UNDEFINED,
                    pool |-> neurons, seenBefore |-> seenNeuronFiles]
        /\ strays' = 0

StartNewGameFrom(pools) ==
    \E neurons \in pools, draw \in Draws :
        /\ startNewGame(neurons, draw)
        /\ UNCHANGED <<parserVars, scoreVars, pageVars, workerVars>>

StartNewGame == StartNewGameFrom(GamePools)

\* setGuess(position)
setGuess(position) ==
    /\ currentGuess' = position
    /\ call' = Call("setGuess", UNDEFINED)
    /\ UNCHANGED <<seenNeuronFiles, currentRound, roundScores, totalScore,
                   selectedNeurons, currentSynapseGuess, phase, strays>>

SetGuess ==
    \E position \in GuessPositions :
        /\ setGuess(position)
        /\ UNCHANGED <<parserVars, scoreVars, pageVars, workerVars>>

SetSynapseGuess ==
    \E count \in SynapseGuesses :
        /\ currentSynapseGuess' = count
        /\ call' = Call("setSynapseGuess", UNDEFINED)
        /\ UNCHANGED <<seenNeuronFiles, currentRound, roundScores, totalScore,
                       selectedNeurons, currentGuess, phase, strays,
                       parserVars, scoreVars, pageVars, workerVars>>

\* this.selectedNeurons[this.currentRound]
getCurrentNeuronMeta ==
    IF currentRound + 1 \in DOMAIN selectedNeurons
    THEN selectedNeurons[currentRound + 1]
    ELSE UNDEFINED

\* euclideanDistance reads a[0] of the guess: a null guess throws
GuessReadable(guess) == guess # NULL

\* submitGuess of the page submits a round that is being guessed, with both
\* guess fields set
SubmitInOrder ==
    phase = "guessing" /\ currentGuess # NULL /\ currentSynapseGuess # NULL

\* the page's Next button shows on the result screen
NextInOrder == phase = "result"

RoundResult(result, actualSynapses) ==
    [score |-> result.score,
     locationScore |-> result.locationScore,
     synapseScore |-> result.synapseScore,
     distance |-> result.distance,
     synapseGuess |-> currentSynapseGuess,
     synapseActual |-> actualSynapses,
     guess |-> currentGuess,
     answer |-> result.usedAnswer,
     neuronMeta |-> getCurrentNeuronMeta]

Accumulate_Location(total, result) == total + result.locationScore

\* this.totalScore += result.score
Accumulate(total, result) == total + result.score

\* submitRound(answerPosition, maxDistance, actualSynapses, midlineX)
submitRound(answerPosition, maxDistance, actualSynapses, midlineX) ==
    IF ~GuessReadable(currentGuess)
    THEN /\ call' = Call("submitRound", "TypeError")
         /\ UNCHANGED <<seenNeuronFiles, currentRound, roundScores, totalScore,
                        selectedNeurons, currentGuess, currentSynapseGuess, phase>>
    ELSE LET result == computeScore(currentGuess, answerPosition, maxDistance,
                                    currentSynapseGuess, actualSynapses, midlineX)
         IN  /\ roundScores' = Append(roundScores, RoundResult(result, actualSynapses))
             /\ totalScore' = Accumulate(totalScore, result)
             /\ phase' = "result"
             /\ call' = Call("submitRound", "result")
             /\ UNCHANGED <<seenNeuronFiles, currentRound, selectedNeurons,
                            currentGuess, currentSynapseGuess>>

SubmitRound ==
    /\ SubmitInOrder \/ strays < MaxStrays
    /\ strays' = IF SubmitInOrder THEN strays ELSE strays + 1
    /\ UNCHANGED <<parserVars, scoreVars, pageVars, workerVars>>
    /\ \E answerPosition \in AnswerPositions, maxDistance \in MaxDistances,
          actualSynapses \in SynapseActuals, midlineX \in MidlineXs :
        submitRound(answerPosition, maxDistance, actualSynapses, midlineX)

PhaseOfRound_Late(r) == IF r > ROUNDS_PER_GAME THEN "final" ELSE "guessing"

\* the phase nextRound moves to, and returns, once the index is r
PhaseOfRound(r) == IF r >= ROUNDS_PER_GAME THEN "final" ELSE "guessing"

\* nextRound()
nextRound ==
    /\ currentRound' = currentRound + 1
    /\ currentGuess' = NULL
    /\ currentSynapseGuess' = NULL
    /\ phase' = PhaseOfRound(currentRound + 1)
    /\ call' = Call("nextRound", PhaseOfRound(currentRound + 1))
    /\ UNCHANGED <<seenNeuronFiles, roundScores, totalScore, selectedNeurons>>

NextRound ==
    /\ NextInOrder \/ strays < MaxStrays
    /\ strays' = IF NextInOrder THEN strays ELSE strays + 1
    /\ nextRound
    /\ UNCHANGED <<parserVars, scoreVars, pageVars, workerVars>>

isGameOver == currentRound >= ROUNDS_PER_GAME - 1 /\ phase = "result"

Next ==
    \/ StartNewGame
    \/ Reset
    \/ SetGuess
    \/ SetSynapseGuess
    \/ SubmitRound
    \/ NextRound

Spec == Init /\ [][Next]_vars

\* the selection alone, on every manifest of Pools
StartNewGameAny == StartNewGameFrom(Pools)

NextSelect ==
    \/ StartNewGameAny
    \/ Reset

SpecSelect == Init /\ [][NextSelect]_vars

\* ------------------------------------------------------------ properties
RECURSIVE SumScores(_)
SumScores(rs) == IF rs = <<>> THEN 0 ELSE Head(rs).score + SumScores(Tail(rs))

Started == call.op = "startNewGame"

\* entries of the manifest handed to the last startNewGame that were unseen
\* when it was called
UnseenCount ==
    Cardinality({ i \in 1..Len(call.pool) : call.pool[i].file \notin call.seenBefore })

Distinct(s) == \A i, j \in 1..Len(s) : i # j => s[i].file # s[j].file

FromPool(s, pool) == \A i \in 1..Len(s) : \E j \in 1..Len(pool) : s[i] = pool[j]

\* C1: in a game whose calls were all made in order (each submitRound in
\* phase guessing with both guess fields set, each nextRound after it), the
\* k-th nextRound, k being the number of rounds submitted, returns and leaves
\* 'guessing' for k < 5 and 'final' for k = 5, and the phase is 'final' only
\* after the 5th.
C1_FinalAfterFiveCycles ==
    strays = 0 =>
        /\ phase = "final" => Len(roundScores) = ROUNDS_PER_GAME
        /\ call.op = "nextRound" =>
              /\ Len(roundScores) \in 1..ROUNDS_PER_GAME
              /\ call.ret = (IF Len(roundScores) = ROUNDS_PER_GAME
                             THEN "final" ELSE "guessing")
              /\ phase = call.ret

C1_Witness ==
    /\ strays = 0
    /\ call.op = "nextRound"
    /\ call.ret = "final"
    /\ phase = "final"
    /\ Len(roundScores) = ROUNDS_PER_GAME

\* C2: isGameOver() is true exactly when the round index is 4 and the phase
\* is 'result', which is only after the 5th submitRound of the game.
C2_GameOverOnlyAfterFifth ==
    /\ isGameOver <=> (currentRound = ROUNDS_PER_GAME - 1 /\ phase = "result")
    /\ isGameOver => Len(roundScores) = ROUNDS_PER_GAME

\* C3: the phase changes only along guessing->result by submitRound and
\* result->guessing or result->final by nextRound (reset and startNewGame
\* apart); so no setGuess, setSynapseGuess, submitRound or nextRound takes
\* the phase out of 'final'.
C3_PhaseEdges ==
    [][ (phase' # phase /\ call'.op \notin {"reset", "startNewGame"}) =>
            <<phase, call'.op, phase'>> \in
                { <<"guessing", "submitRound", "result">>,
                  <<"result", "nextRound", "guessing">>,
                  <<"result", "nextRound", "final">> } ]_vars

SelectedFive ==
    /\ Len(selectedNeurons) = ROUNDS_PER_GAME
    /\ Distinct(selectedNeurons)
    /\ FromPool(selectedNeurons, call.pool)
    /\ Files(selectedNeurons) \subseteq seenNeuronFiles
    /\ currentRound = 0
    /\ phase = "guessing"

\* C4 as stated: after startNewGame on any manifest, 5 neurons with distinct
\* identifiers from the manifest are selected and seen, the round index is 0
\* and the phase is 'guessing'.
C4_AnyPool == Started => SelectedFive

\* C4 amended: the same for every manifest of at least 5 neurons with
\* pairwise distinct identifiers.
C4_FiveFromDistinctPool ==
    (Started /\ Len(call.pool) >= ROUNDS_PER_GAME /\ Distinct(call.pool))
        => SelectedFive

C4_Witness ==
    /\ Started
    /\ Len(call.pool) > ROUNDS_PER_GAME
    /\ Distinct(call.pool)
    /\ call.seenBefore # {}
    /\ SelectedFive

\* C5: a startNewGame call that found at least 5 unseen neurons in its
\* manifest selected no neuron whose identifier was seen before the call.
C5_NoReselect ==
    (Started /\ UnseenCount >= ROUNDS_PER_GAME)
        => Files(selectedNeurons) \cap call.seenBefore = {}

C5_Witness ==
    /\ Started
    /\ UnseenCount >= ROUNDS_PER_GAME
    /\ Files(call.pool) \cap call.seenBefore # {}
    /\ Len(selectedNeurons) = ROUNDS_PER_GAME
    /\ Files(selectedNeurons) \cap call.seenBefore = {}

\* C6: a startNewGame call that finds fewer than 5 unseen neurons leaves the
\* seen-set equal to the identifiers it selected, all from the manifest;
\* otherwise it leaves the previous seen-set plus the selected identifiers;
\* reset leaves the seen-set as it is.
C6_SeenSet ==
    [][ /\ call'.op = "startNewGame" =>
              LET pool == call'.pool
                  unseen == Cardinality({ i \in 1..Len(pool) :
                                            pool[i].file \notin seenNeuronFiles })
              IN  /\ FromPool(selectedNeurons', pool)
                  /\ IF unseen < ROUNDS_PER_GAME
                     THEN seenNeuronFiles' = Files(selectedNeurons')
                     ELSE seenNeuronFiles' = seenNeuronFiles \cup Files(selectedNeurons')
        /\ call'.op = "reset" => seenNeuronFiles' = seenNeuronFiles ]_vars

C6_Witness ==
    /\ Started
    /\ UnseenCount < ROUNDS_PER_GAME
    /\ call.seenBefore # {}
    /\ ~(call.seenBefore \subseteq seenNeuronFiles)
    /\ seenNeuronFiles = Files(selectedNeurons)

\* C7: two startNewGame calls given the same manifest with the same seen-set
\* select the same neurons in the same order.
C7_Deterministic ==
    [][ ( /\ call.op = "startNewGame"
          /\ call'.op = "startNewGame"
          /\ call'.pool = call.pool
          /\ call'.seenBefore = call.seenBefore )
        => selectedNeurons' = selectedNeurons ]_vars

\* C8: submitRound called with the position guess or the synapse guess null
\* returns an error and leaves roundScores, totalScore and phase as they were.
C8_NullGuessRejected ==
    [][ (call'.op = "submitRound" /\ (currentGuess = NULL \/ currentSynapseGuess = NULL))
        => /\ call'.ret = "TypeError"
           /\ UNCHANGED <<roundScores, totalScore, phase>> ]_vars

\* C9: totalScore is always the sum of the scores of roundScores; a
\* submitRound that returns a result appends one entry and adds its score;
\* reset and startNewGame leave no entry and a total of 0.
C9_TotalIsSum ==
    /\ [](totalScore = SumScores(roundScores))
    /\ [][ /\ (call'.op = "submitRound" /\ call'.ret = "result") =>
               /\ Len(roundScores') = Len(roundScores) + 1
               /\ SubSeq(roundScores', 1, Len(roundScores)) = roundScores
               /\ totalScore' = totalScore + roundScores'[Len(roundScores')].score
           /\ call'.op \in {"reset", "startNewGame"} =>
               (roundScores' = <<>> /\ totalScore' = 0) ]_vars

C9_Witness ==
    /\ Len(roundScores) >= 2
    /\ roundScores[1].score # roundScores[2].score
    /\ roundScores[1].synapseScore > 0
    /\ totalScore = SumScores(roundScores)

\* C10: roundScores never holds more than 5 entries and totalScore never
\* exceeds 50,000.
C10_FiveRoundsAtMost ==
    /\ Len(roundScores) <= ROUNDS_PER_GAME
    /\ totalScore <= ROUNDS_PER_GAME * (MAX_LOCATION_POINTS + MAX_SYNAPSE_POINTS)

\* ------------------------------------------------- computeScore, called alone
MaxCoord == 16

ScorePositions == { <<x, 0, 0>> : x \in 0..MaxCoord }

\* midlineX of the call: NULL stands for null and for undefined, which
\* midlineX != null treats alike
ScoreMidlines == {NULL, Num(4), Num(8), Num(15)}

ScoreSynapseGuesses == {NULL, Num(-100), Num(0), Num(50), Num(100)}

ScoreSynapseActuals == {-100, 0, 100, 200}

ScoreCalls ==
    [guess : ScorePositions, answer : ScorePositions, maxDistance : MaxDistances,
     synapseGuess : ScoreSynapseGuesses, synapseActual : ScoreSynapseActuals,
     midlineX : ScoreMidlines]

ScoreInit ==
    /\ GameInit
    /\ ParserIdle
    /\ PageIdle
    /\ WorkerIdle
    /\ scoreArgs \in ScoreCalls
    /\ scoreResult = NULL

ComputeScore ==
    /\ scoreResult = NULL
    /\ scoreResult' = computeScore(scoreArgs.guess, scoreArgs.answer,
                                   scoreArgs.maxDistance, scoreArgs.synapseGuess,
                                   scoreArgs.synapseActual, scoreArgs.midlineX)
    /\ UNCHANGED <<gameVars, parserVars, scoreArgs, pageVars, workerVars>>

NextScore == ComputeScore

SpecScore == ScoreInit /\ [][NextScore]_vars

Scored == scoreResult # NULL

\* the location score of the call's guess against the answer as given
LocOriginal ==
    computeLocationScore(scoreArgs.guess, scoreArgs.answer, scoreArgs.maxDistance)

\* the location score of the call's guess against the mirrored answer
LocMirrored ==
    computeLocationScore(scoreArgs.guess,
                         mirrorX(scoreArgs.answer, scoreArgs.midlineX[1]),
                         scoreArgs.maxDistance)

MirrorNotBetter ==
    scoreArgs.midlineX = NULL \/ LocMirrored.score <= LocOriginal.score

MAX_NODES_BEFORE_DOWNSAMPLE == 1000

KEEP_EVERY_NTH == 5

\* a row is <<rowId, x, y, z, radius, link>>, possibly with further cells
RowId(row) == row[1]

RowXYZ(row) == <<row[2], row[3], row[4]>>

RowLink(row) == row[6]

MinOf(S) == CHOOSE m \in S : \A x \in S : m <= x

MaxOf(S) == 0 - MinOf({ 0 - x : x \in S })

Indices(s) == [i \in 1..Len(s) |-> i]

\* map.has(id) once map.set(row[0], i) has run over the rows
HasId(rs, id) == \E i \in 1..Len(rs) : RowId(rs[i]) = id

\* map.get(id) once map.set(row[0], i) has run over the rows: the index,
\* counted from 0, of the last row with that id
IdToIdx(rs, id) == MaxOf({ i \in 1..Len(rs) : RowId(rs[i]) = id }) - 1

\* nodes.push([x, y, z]) for every row in turn
NodesOf(rs) == [i \in 1..Len(rs) |-> RowXYZ(rs[i])]

\* if (link >= 0 && rowIdToIdx.has(link))
FullLinked(rs, row) == RowLink(row) >= 0 /\ HasId(rs, RowLink(row))

_buildFullSkeleton(rs) ==
    LET Linked(i) == FullLinked(rs, rs[i])
        edgeRows == SelectSeq(Indices(rs), Linked)
    IN  [nodes |-> NodesOf(rs),
         edges |-> [k \in 1..Len(edgeRows) |->
                       <<IdToIdx(rs, RowLink(rs[edgeRows[k]])),
                         IdToIdx(rs, RowId(rs[edgeRows[k]]))>>]]

\* linkMap.get(id): the link of the last row with that id
LinkOf(rs, id) == RowLink(rs[IdToIdx(rs, id) + 1])

\* parentCounts.get(id): the rows whose link is id
ParentCount(rs, id) == Cardinality({ i \in 1..Len(rs) : RowLink(rs[i]) = id })

rootIds(rs) == { RowId(rs[i]) : i \in { j \in 1..Len(rs) : RowLink(rs[j]) = -1 } }

allParents(rs) == { RowLink(rs[i]) : i \in 1..Len(rs) } \ {-1}

branchPoints(rs) == { id \in allParents(rs) : ParentCount(rs, id) > 1 }

tips(rs) == { RowId(rs[i]) : i \in 1..Len(rs) } \ allParents(rs)

\* for (let i = 0; i < rows.length; i += KEEP_EVERY_NTH) keepIds.add(rows[i][0])
strideIds(rs) ==
    { RowId(rs[i]) : i \in { j \in 1..Len(rs) : (j - 1) % KEEP_EVERY_NTH = 0 } }

keepIds_NoBranchPoints(rs) == tips(rs) \cup rootIds(rs) \cup strideIds(rs)

keepIds_NoStride(rs) == branchPoints(rs) \cup tips(rs) \cup rootIds(rs)

keepIds(rs) == branchPoints(rs) \cup tips(rs) \cup rootIds(rs) \cup strideIds(rs)

\* what the walk yields when it never leaves its loop
Loops == -2

\* while (parent !== -1 && !keepIds.has(parent)) parent = linkMap.get(parent) ?? -1
RECURSIVE Walk(_, _, _, _)
Walk(rs, keep, parent, visited) ==
    IF parent = -1 \/ parent \in keep THEN parent
    ELSE IF parent \in visited THEN Loops
    ELSE Walk(rs, keep, IF HasId(rs, parent) THEN LinkOf(rs, parent) ELSE -1,
              visited \cup {parent})

EffectiveParent_Direct(rs, keep, link) == link

EffectiveParent_SkipFirst(rs, keep, link) ==
    Walk(rs, keep, IF HasId(rs, link) THEN LinkOf(rs, link) ELSE -1, {})

\* let parent = link, then the walk
EffectiveParent(rs, keep, link) == Walk(rs, keep, link, {})

\* the walk of some kept row never ends
WalkHangs(rs) ==
    LET keep == keepIds(rs)
    IN  \E i \in 1..Len(rs) :
            RowId(rs[i]) \in keep /\ EffectiveParent(rs, keep, RowLink(rs[i])) = Loops

_downsampleSkeleton(rs) ==
    LET keep == keepIds(rs)
        Kept(row) == RowId(row) \in keep
        keptRows == SelectSeq(rs, Kept)
        parentOf == [i \in 1..Len(keptRows) |->
                        EffectiveParent(rs, keep, RowLink(keptRows[i]))]
        Linked(i) == parentOf[i] # -1 /\ HasId(keptRows, parentOf[i])
        edgeRows == SelectSeq(Indices(keptRows), Linked)
    IN  [nodes |-> NodesOf(keptRows),
         edges |-> [k \in 1..Len(edgeRows) |->
                       <<IdToIdx(keptRows, parentOf[edgeRows[k]]),
                         IdToIdx(keptRows, RowId(keptRows[edgeRows[k]]))>>]]

\* ------------------------------------------ the skeleton builders, called alone
MaxRows == 6

MaxIrregular == 3

\* an id that no row carries
MissingId == 99

\* a chain: the first row is the root and every other row names the row before
ChainLink(i) == IF i = 1 THEN -1 ELSE i - 1

\* links that break the chain: a further root, the row itself, the row after,
\* the row two before, an id of no row
IrregularLinks(i) == <<-1, i, i + 1, i - 2, MissingId>>

\* the links of n rows, a chain but for the rows that g names
LinksOf(n, g) ==
    [i \in 1..n |-> IF i \in DOMAIN g THEN IrregularLinks(i)[g[i]] ELSE ChainLink(i)]

\* the sets of at most MaxIrregular rows, out of n, that break the chain
IrregularRows(n) == { E \in SUBSET (1..n) : Cardinality(E) <= MaxIrregular }

\* row i carries id i, or the third row carries the id of the first
RowIds(n, dup) == [i \in 1..n |-> IF dup /\ i = 3 THEN 1 ELSE i]

GraphRowsOf(ids, links) ==
    [i \in 1..Len(ids) |-> <<ids[i], i, i + 10, i + 20, 1, links[i]>>]

GraphInit ==
    /\ GameInit
    /\ ScoreIdle
    /\ PageIdle
    /\ WorkerIdle
    /\ \E n \in 1..MaxRows : \E D \in IrregularRows(n) :
           \E g \in [D -> 1..Len(IrregularLinks(1))], dup \in BOOLEAN :
               rows = GraphRowsOf(RowIds(n, dup), LinksOf(n, g))
    /\ columns = NULL
    /\ somaLocation = NULL
    /\ neuron = NULL
    /\ graph = NULL

\* what a builder handed back, or that it never did
Built(path, g) ==
    [path |-> path, status |-> "returned", nodes |-> g.nodes, edges |-> g.edges]

Hung(path) == [path |-> path, status |-> "hangs", nodes |-> <<>>, edges |-> <<>>]

BuildFull ==
    /\ graph = NULL
    /\ graph' = Built("full", _buildFullSkeleton(rows))
    /\ UNCHANGED <<gameVars, scoreVars, pageVars, workerVars, rows, columns,
                   somaLocation, neuron>>

Downsample ==
    /\ graph = NULL
    /\ graph' = IF WalkHangs(rows) THEN Hung("reduced")
                ELSE Built("reduced", _downsampleSkeleton(rows))
    /\ UNCHANGED <<gameVars, scoreVars, pageVars, workerVars, rows, columns,
                   somaLocation, neuron>>

NextGraph ==
    \/ BuildFull
    \/ Downsample

SpecGraph == GraphInit /\ [][NextGraph]_vars

\* --------------------------------------------- properties of the built graph
BuiltBy(path) == graph # NULL /\ graph.path = path /\ graph.status = "returned"

\* the rows that name row i as their parent
NamedBy(i) == { j \in 1..Len(rows) : RowLink(rows[j]) = RowId(rows[i]) }

\* row i names a row other than itself
NamesAnother(i) ==
    \E j \in 1..Len(rows) : j # i /\ RowId(rows[j]) = RowLink(rows[i])

SelfNaming(i) == RowLink(rows[i]) = RowId(rows[i])

\* C11: built verbatim, the graph has one node per row, node i at the
\* position of row i, and as many edges as there are rows whose parentId is
\* the id of another row; a row naming itself, an id of no row, or -1 adds none
C11_VerbatimGraph ==
    BuiltBy("full") =>
        /\ Len(graph.nodes) = Len(rows)
        /\ \A i \in 1..Len(rows) : graph.nodes[i] = RowXYZ(rows[i])
        /\ Len(graph.edges) =
               Cardinality({ i \in 1..Len(rows) : NamesAnother(i) })

\* the pairs <<a, b>> joined by a path of at most k edges from a down to b
RECURSIVE Paths(_, _)
Paths(E, k) ==
    IF k <= 1 THEN E
    ELSE LET P == Paths(E, k - 1)
         IN  P \cup { <<pe[1][1], pe[2][2]>> :
                          pe \in { qf \in P \X E : qf[1][2] = qf[2][1] } }

EdgeSet(g) == { g.edges[k] : k \in 1..Len(g.edges) }

NodeIndices(g) == 0..(Len(g.nodes) - 1)

\* no node is above itself
Acyclic(g) == \A p \in Paths(EdgeSet(g), Len(g.nodes)) : p[1] # p[2]

\* no node index is the child end of two edges
OneParent(g) ==
    \A k, l \in 1..Len(g.edges) : k # l => g.edges[k][2] # g.edges[l][2]

Forest(g) ==
    /\ \A k \in 1..Len(g.edges) :
           g.edges[k][1] \in NodeIndices(g) /\ g.edges[k][2] \in NodeIndices(g)
    /\ OneParent(g)
    /\ Acyclic(g)

\* C14: on both build paths the edges form a forest: both ends are node
\* indices, no node index is the child end of two edges, and no node is above
\* itself
C14_Forest ==
    (BuiltBy("full") \/ BuiltBy("reduced")) => Forest(graph)

\* ------------------------------------------- properties of the reduced graph
UniqueIds == \A i, j \in 1..Len(rows) : i # j => RowId(rows[i]) # RowId(rows[j])

IsBranchPoint(i) == Cardinality(NamedBy(i)) > 1

IsTip(i) == NamedBy(i) = {}

IsRoot(i) == RowLink(rows[i]) = -1

AtStride(i) == (i - 1) % KEEP_EVERY_NTH = 0

Retained(i) == IsBranchPoint(i) \/ IsTip(i) \/ IsRoot(i) \/ AtStride(i)

\* the rows whose positions the graph carries, every row of GraphInit having
\* a position of its own
KeptRows == { i \in 1..Len(rows) :
                \E k \in 1..Len(graph.nodes) : graph.nodes[k] = RowXYZ(rows[i]) }

\* C12 as stated: in the reduced graph a row is kept if and only if it is a
\* branch point, a tip, a root or at a position that is a multiple of the
\* stride
C12_KeptIff ==
    BuiltBy("reduced") => KeptRows = { i \in 1..Len(rows) : Retained(i) }

\* C12: when the row ids are pairwise distinct, a row is kept in the reduced
\* graph if and only if it is a branch point, a tip, a root or at a position
\* that is a multiple of the stride
C12_KeptIffUniqueIds ==
    (BuiltBy("reduced") /\ UniqueIds) =>
        KeptRows = { i \in 1..Len(rows) : Retained(i) }

\* a reduction of rows with distinct ids that drops a row and keeps one for
\* its position alone
C12_Witness ==
    /\ BuiltBy("reduced")
    /\ UniqueIds
    /\ \E i \in 1..Len(rows) : i \notin KeptRows
    /\ \E i \in KeptRows :
           AtStride(i) /\ ~IsBranchPoint(i) /\ ~IsTip(i) /\ ~IsRoot(i)

\* the index, counted from 0, of the node that carries the position of row i
NodeOf(i) ==
    (CHOOSE k \in 1..Len(graph.nodes) : graph.nodes[k] = RowXYZ(rows[i])) - 1

\* the row that row i names as its parent, 0 when it names none
ParentRow(i) ==
    IF \E j \in 1..Len(rows) : RowId(rows[j]) = RowLink(rows[i])
    THEN CHOOSE j \in 1..Len(rows) : RowId(rows[j]) = RowLink(rows[i])
    ELSE 0

\* the first kept row met on the way up from row i, 0 when there is none
\* within the given number of steps
RECURSIVE NearestKept(_, _)
NearestKept(i, steps) ==
    LET p == ParentRow(i)
    IN  IF p = 0 \/ steps = 0 THEN 0
        ELSE IF p \in KeptRows THEN p
        ELSE NearestKept(p, steps - 1)

IncomingEdges(i) ==
    { k \in 1..Len(graph.edges) : graph.edges[k][2] = NodeOf(i) }

ReducedEdges ==
    /\ \A i \in KeptRows :
           IF IsRoot(i) THEN IncomingEdges(i) = {}
           ELSE /\ Cardinality(IncomingEdges(i)) = 1
                /\ NearestKept(i, Len(rows)) # 0
                /\ \A k \in IncomingEdges(i) :
                       graph.edges[k][1] = NodeOf(NearestKept(i, Len(rows)))
    /\ Acyclic(graph)

\* no row is above itself along the parent links
RECURSIVE ReachesRoot(_, _)
ReachesRoot(i, steps) ==
    IF IsRoot(i) THEN TRUE
    ELSE IF steps = 0 \/ ParentRow(i) = 0 THEN FALSE
    ELSE ReachesRoot(ParentRow(i), steps - 1)

\* distinct ids, every parentId -1 or the id of a row, no cycle of parent links
WellFormed ==
    /\ UniqueIds
    /\ \A i \in 1..Len(rows) : ReachesRoot(i, Len(rows))

\* C13 as stated: in the reduced graph every kept row that is not a root has
\* exactly one edge ending at its index, from the first kept row met on the
\* way up its parent links; a root has no incoming edge; no cycle
C13_NearestKeptAncestor ==
    BuiltBy("reduced") => ReducedEdges

\* C13: for a well-formed input (distinct ids, every parentId -1 or the id of
\* a row, no cycle), every kept row that is not a root has exactly one edge
\* ending at its index, from the first kept row met on the way up its parent
\* links; a root has no incoming edge; no cycle
C13_NearestKeptAncestorWellFormed ==
    (BuiltBy("reduced") /\ WellFormed) => ReducedEdges

\* a well-formed reduction in which an edge passes over a dropped row
C13_Witness ==
    /\ BuiltBy("reduced")
    /\ WellFormed
    /\ \E i \in KeptRows :
           /\ ~IsRoot(i)
           /\ ParentRow(i) \notin KeptRows
           /\ \E k \in IncomingEdges(i) :
                  graph.edges[k][1] = NodeOf(NearestKept(i, Len(rows)))

\* ------------------------------------------------ rows that name no input row
\* the rows, with -1 for the parentId of row i
Orphaned(i) == [rows EXCEPT ![i][6] = -1]

NamesNoRow(i) == ParentRow(i) = 0

SameGraph(g) == graph.nodes = g.nodes /\ graph.edges = g.edges

\* C15: on both build paths a row whose parentId is the id of no input row is
\* treated as a row without parent: the build returns, and returns the nodes
\* and edges it returns for the input in which that parentId is -1
C15_MissingParentAsRoot ==
    \A i \in 1..Len(rows) :
        (graph # NULL /\ NamesNoRow(i)) =>
            /\ graph.status = "returned"
            /\ graph.path = "full" => SameGraph(_buildFullSkeleton(Orphaned(i)))
            /\ graph.path = "reduced" =>
                   /\ ~WalkHangs(Orphaned(i))
                   /\ SameGraph(_downsampleSkeleton(Orphaned(i)))

\* ----------------------------------------------------- swc-parser.js: the soma
\* metadata.somaLocation is NULL, an array, an object with x, y, z, or a
\* string: json tells what JSON.parse makes of the string ("invalid" when it
\* throws) and v holds the numbers
SomaArray(v) == [kind |-> "array", json |-> "none", v |-> v]

SomaObject(v) == [kind |-> "object", json |-> "none", v |-> v]

SomaString(json, v) == [kind |-> "string", json |-> json, v |-> v]

_parseSomaLocation(sl) ==
    IF sl = NULL THEN NULL
    ELSE IF sl.kind = "string" /\ sl.json = "invalid" THEN NULL
    ELSE LET kind == IF sl.kind = "string" THEN sl.json ELSE sl.kind
         IN  IF kind = "array" /\ Len(sl.v) >= 3 THEN <<sl.v[1], sl.v[2], sl.v[3]>>
             ELSE IF kind = "object" THEN <<sl.v[1], sl.v[2], sl.v[3]>>
             ELSE NULL

\* c.toLowerCase() on the column names in use
ToLowerCase(c) ==
    CASE c = "rowId" -> "rowid"
      [] c = "Type" -> "type"
      [] OTHER -> c

\* colIdx[name] ?? fallback, colIdx being filled from the columns in turn
ColIdx(cols, name, fallback) ==
    IF cols = NULL \/ ~\E i \in 1..Len(cols) : ToLowerCase(cols[i]) = name
    THEN fallback
    ELSE MaxOf({ i \in 1..Len(cols) : ToLowerCase(cols[i]) = name }) - 1

\* row[i], the cells being counted from 0
Cell(row, i) == row[i + 1]

\* [row[iX], row[iY], row[iZ]]
PosBy(cols, row) ==
    <<Cell(row, ColIdx(cols, "x", 1)), Cell(row, ColIdx(cols, "y", 2)),
      Cell(row, ColIdx(cols, "z", 3))>>

\* the first index at which the sequence of numbers is least
FirstLeast(val) ==
    LET least == MinOf({ val[i] : i \in 1..Len(val) })
    IN  MinOf({ i \in 1..Len(val) : val[i] = least })

Scales_EighthFirst == <<8, 1>>

\* the scales 1 and 1/8, by their denominators, in the order they are tried
Scales == <<1, 8>>

Margin(b) == MaxOf({ b.maxX - b.minX, b.maxY - b.minY, b.maxZ - b.minZ })

\* the candidate somaCoord / den lies outside the bounds widened by the margin
Rejected_NoMargin(c, den, b) ==
    \/ c[1] < den * b.minX \/ c[1] > den * b.maxX
    \/ c[2] < den * b.minY \/ c[2] > den * b.maxY
    \/ c[3] < den * b.minZ \/ c[3] > den * b.maxZ

Rejected(c, den, b) ==
    \/ c[1] < den * (b.minX - Margin(b)) \/ c[1] > den * (b.maxX + Margin(b))
    \/ c[2] < den * (b.minY - Margin(b)) \/ c[2] > den * (b.maxY + Margin(b))
    \/ c[3] < den * (b.minZ - Margin(b)) \/ c[3] > den * (b.maxZ + Margin(b))

\* den * den times the squared distance of the row from somaCoord / den
Dist2(cols, row, c, den) ==
    LET p == PosBy(cols, row)
    IN  (den * p[1] - c[1]) * (den * p[1] - c[1])
        + (den * p[2] - c[2]) * (den * p[2] - c[2])
        + (den * p[3] - c[3]) * (den * p[3] - c[3])

SnapTo_Unsnapped(rs, cols, c, den) == c

\* the row nearest to somaCoord / den, the first of them on a tie
SnapTo(rs, cols, c, den) ==
    LET d == [i \in 1..Len(rs) |-> Dist2(cols, rs[i], c, den)]
    IN  PosBy(cols, rs[FirstLeast(d)])

\* strategy 1: the metadata soma location, snapped to the nearest row, at the
\* first scale at which it is not rejected
SomaFromMetadata(rs, cols, sl, b) ==
    LET c == _parseSomaLocation(sl)
    IN  IF c = NULL THEN NULL
        ELSE IF ~Rejected(c, Scales[1], b) THEN SnapTo(rs, cols, c, Scales[1])
        ELSE IF ~Rejected(c, Scales[2], b) THEN SnapTo(rs, cols, c, Scales[2])
        ELSE NULL

\* row[iType] === 1, a cell past the end of the row being undefined
TypeIsSoma(cols, row) ==
    LET iType == ColIdx(cols, "type", -1)
    IN  iType >= 0 /\ iType + 1 \in DOMAIN row /\ Cell(row, iType) = 1

\* strategy 2: the first row of type 1
SomaFromType(rs, cols) ==
    IF \E i \in 1..Len(rs) : TypeIsSoma(cols, rs[i])
    THEN PosBy(cols, rs[MinOf({ i \in 1..Len(rs) : TypeIsSoma(cols, rs[i]) })])
    ELSE NULL

\* strategy 3: the first row of the largest radius, if that is above 0
SomaFromRadius(rs, cols) ==
    LET radius == [i \in 1..Len(rs) |-> Cell(rs[i], ColIdx(cols, "radius", 4))]
        best == FirstLeast([i \in 1..Len(rs) |-> 0 - radius[i]])
    IN  IF radius[best] > 0 THEN PosBy(cols, rs[best]) ELSE NULL

IsRootRow(cols, row) == Cell(row, ColIdx(cols, "link", 5)) = -1

SomaFromRoot_Never(rs, cols) == NULL

\* strategy 4: the first row whose link is -1
SomaFromRoot(rs, cols) ==
    IF \E i \in 1..Len(rs) : IsRootRow(cols, rs[i])
    THEN PosBy(cols, rs[MinOf({ i \in 1..Len(rs) : IsRootRow(cols, rs[i]) })])
    ELSE NULL

_findSoma_RadiusFirst(rs, cols, sl, b) ==
    LET byMetadata == SomaFromMetadata(rs, cols, sl, b)
        byType == SomaFromType(rs, cols)
        byRadius == SomaFromRadius(rs, cols)
    IN  IF rs = <<>> THEN NULL
        ELSE IF byRadius # NULL THEN byRadius
        ELSE IF byMetadata # NULL THEN byMetadata
        ELSE IF byType # NULL THEN byType
        ELSE SomaFromRoot(rs, cols)

_findSoma(rs, cols, sl, b) ==
    LET byMetadata == SomaFromMetadata(rs, cols, sl, b)
        byType == SomaFromType(rs, cols)
        byRadius == SomaFromRadius(rs, cols)
    IN  IF rs = <<>> THEN NULL
        ELSE IF byMetadata # NULL THEN byMetadata
        ELSE IF byType # NULL THEN byType
        ELSE IF byRadius # NULL THEN byRadius
        ELSE SomaFromRoot(rs, cols)

\* min and max of the node coordinates
BoundsOf(nodes) ==
    [minX |-> MinOf({ nodes[i][1] : i \in 1..Len(nodes) }),
     minY |-> MinOf({ nodes[i][2] : i \in 1..Len(nodes) }),
     minZ |-> MinOf({ nodes[i][3] : i \in 1..Len(nodes) }),
     maxX |-> MaxOf({ nodes[i][1] : i \in 1..Len(nodes) }),
     maxY |-> MaxOf({ nodes[i][2] : i \in 1..Len(nodes) }),
     maxZ |-> MaxOf({ nodes[i][3] : i \in 1..Len(nodes) })]

RECURSIVE SumOf(_, _, _)
SumOf(nodes, axis, n) ==
    IF n = 0 THEN 0 ELSE nodes[n][axis] + SumOf(nodes, axis, n - 1)

\* Math.round((sum / n) * 10), the tenths of the rounded mean; Math.round
\* rounds a half up
RoundedTenths(sum, n) == (20 * sum + n) \div (2 * n)

\* the centroid, in tenths
CentroidOf(nodes) ==
    [axis \in 1..3 |-> RoundedTenths(SumOf(nodes, axis, Len(nodes)), Len(nodes))]

Tenths(pos) == <<10 * pos[1], 10 * pos[2], 10 * pos[3]>>

\* rows.length > MAX_NODES_BEFORE_DOWNSAMPLE
Reduces(rs) == Len(rs) > MAX_NODES_BEFORE_DOWNSAMPLE

\* !rows || rows.length === 0
NoRows_OrOne(rs) == Len(rs) <= 1

NoRows(rs) == rs = NULL \/ Len(rs) = 0

\* what parseSkeletonToNeuron returns; centroid and answer are in tenths
parseSkeletonToNeuron(rs, sl, cols) ==
    IF NoRows(rs) THEN [status |-> "threw", error |-> "Error"]
    ELSE IF Reduces(rs) /\ WalkHangs(rs) THEN [status |-> "hangs"]
    ELSE LET g == IF Reduces(rs) THEN _downsampleSkeleton(rs)
                  ELSE _buildFullSkeleton(rs)
             b == BoundsOf(g.nodes)
             soma == _findSoma(rs, cols, sl, b)
             centroid == CentroidOf(g.nodes)
         IN  [status |-> "returned",
              path |-> IF Reduces(rs) THEN "reduced" ELSE "full",
              nodes |-> g.nodes,
              edges |-> g.edges,
              centroid |-> centroid,
              soma |-> soma,
              answer |-> IF soma # NULL THEN Tenths(soma) ELSE centroid,
              bounds |-> [min |-> <<b.minX, b.minY, b.minZ>>,
                          max |-> <<b.maxX, b.maxY, b.maxZ>>]]

\* ------------------------------------------- parseSkeletonToNeuron, called alone
MaxSomaRows == 2

\* how far apart the rows of a short skeleton lie
RowSpacing == 16

\* row i of a short skeleton: of the given radius and type, a root or a child
\* of the row before (the first row, of a row that is not there)
SomaRow(i, radius, root, type) ==
    <<i, RowSpacing * (i - 1), 0, 0, radius,
      IF root THEN -1 ELSE IF i = 1 THEN MissingId ELSE i - 1, type>>

SomaRowsOfLen(n) ==
    { [i \in 1..n |-> SomaRow(i, f[i][1], f[i][2], f[i][3])] :
        f \in [1..n -> {0, 1, 2} \X BOOLEAN \X {0, 1}] }

ShortRows == UNION { SomaRowsOfLen(n) : n \in 0..MaxSomaRows }

\* a chain one row longer than the builder copies verbatim, row thick being
\* the one row of radius 2
LongChain(thick) ==
    [i \in 1..(MAX_NODES_BEFORE_DOWNSAMPLE + 1) |->
        <<i, i, 0, 0, IF i = thick THEN 2 ELSE 1, ChainLink(i), 0>>]

LongRows == { LongChain(1), LongChain(3) }

ColumnSets ==
    { NULL,
      <<"rowId", "x", "y", "z", "radius", "link">>,
      <<"rowId", "x", "y", "z", "radius", "link", "Type">> }

SomaLocations ==
    { NULL,
      SomaArray(<<24, 0, 0>>), SomaArray(<<64, 0, 0>>), SomaArray(<<0, 0, 160>>),
      SomaArray(<<24, 0>>), SomaObject(<<128, 0, 0>>),
      SomaString("array", <<8, 0, 0>>), SomaString("invalid", <<>>) }

ParseInit ==
    /\ GameInit
    /\ ScoreIdle
    /\ PageIdle
    /\ WorkerIdle
    /\ \/ rows \in ShortRows /\ columns \in ColumnSets
          /\ somaLocation \in SomaLocations
       \/ rows \in LongRows /\ columns = NULL /\ somaLocation = NULL
    /\ neuron = NULL
    /\ graph = NULL

ParseSkeleton ==
    /\ neuron = NULL
    /\ neuron' = parseSkeletonToNeuron(rows, somaLocation, columns)
    /\ UNCHANGED <<gameVars, scoreVars, pageVars, workerVars, rows, columns,
                   somaLocation, graph>>

NextParse == ParseSkeleton

SpecParse == ParseInit /\ [][NextParse]_vars

\* -------------------------------------------------- properties of the parser
Parsed == neuron # NULL

Returned == neuron # NULL /\ neuron.status = "returned"

\* C16: parseSkeletonToNeuron fails with an error, returning no record, on an
\* empty row input, and returns a record on every other
C16_EmptyFailsOthersReturn ==
    Parsed =>
        /\ rows = <<>> => neuron.status = "threw" /\ neuron.error = "Error"
        /\ rows # <<>> => neuron.status = "returned"

\* the call on no rows has thrown
C16_Witness == Parsed /\ rows = <<>> /\ neuron.status = "threw"

\* the bounds the record carries, as _findSoma gets them
NeuronBounds ==
    [minX |-> neuron.bounds.min[1], minY |-> neuron.bounds.min[2],
     minZ |-> neuron.bounds.min[3], maxX |-> neuron.bounds.max[1],
     maxY |-> neuron.bounds.max[2], maxZ |-> neuron.bounds.max[3]]

ByMetadata == SomaFromMetadata(rows, columns, somaLocation, NeuronBounds)

ByType == SomaFromType(rows, columns)

ByRadius == SomaFromRadius(rows, columns)

ByRoot == SomaFromRoot(rows, columns)

\* C17: the soma is what the first succeeding strategy yields, in the order
\* metadata snap, type marker, thickest row, root: what an earlier strategy
\* yields is the result whatever the later ones would yield
C17_StrategyOrder ==
    Returned =>
        /\ ByMetadata # NULL => neuron.soma = ByMetadata
        /\ (ByMetadata = NULL /\ ByType # NULL) => neuron.soma = ByType
        /\ (ByMetadata = NULL /\ ByType = NULL /\ ByRadius # NULL) =>
               neuron.soma = ByRadius
        /\ (ByMetadata = NULL /\ ByType = NULL /\ ByRadius = NULL) =>
               neuron.soma = ByRoot

\* an accepted metadata snap has won over a row of type 1 and over a thicker
\* row elsewhere
C17_Witness ==
    /\ Returned
    /\ ByMetadata # NULL /\ ByType # NULL /\ ByRadius # NULL
    /\ ByType # ByMetadata /\ ByRadius # ByMetadata
    /\ neuron.soma = ByMetadata

\* C18 as stated: on every non-empty row input the soma is found
C18_SomaFound ==
    Returned => neuron.soma # NULL

HasRootRow == \E i \in 1..Len(rows) : RowLink(rows[i]) = -1

\* C18: on every row input with a row whose parentId is -1 the soma is found,
\* by the root fallback at the latest
C18_SomaFoundWithRoot ==
    (Returned /\ HasRootRow) => neuron.soma # NULL

\* the root fallback alone has yielded the soma
C18_Witness ==
    /\ Returned
    /\ HasRootRow
    /\ ByMetadata = NULL /\ ByType = NULL /\ ByRadius = NULL
    /\ neuron.soma = ByRoot /\ neuron.soma # NULL

\* the metadata soma location as three numbers
Candidate == _parseSomaLocation(somaLocation)

\* the largest dimension of the record's bounding box
LargestDimension ==
    MaxOf({ neuron.bounds.max[a] - neuron.bounds.min[a] : a \in 1..3 })

\* Candidate / den lies within the bounding box widened by its largest
\* dimension on every side
Within(den) ==
    \A a \in 1..3 :
        /\ Candidate[a] >= den * (neuron.bounds.min[a] - LargestDimension)
        /\ Candidate[a] <= den * (neuron.bounds.max[a] + LargestDimension)

\* den * den times the squared distance of row i from Candidate / den
SquaredDistance(i, den) ==
    LET p == RowXYZ(rows[i])
    IN  (den * p[1] - Candidate[1]) * (den * p[1] - Candidate[1])
        + (den * p[2] - Candidate[2]) * (den * p[2] - Candidate[2])
        + (den * p[3] - Candidate[3]) * (den * p[3] - Candidate[3])

\* row i is the first of the rows nearest to Candidate / den
FirstNearest(i, den) ==
    /\ \A j \in 1..Len(rows) : SquaredDistance(i, den) <= SquaredDistance(j, den)
    /\ \A j \in 1..(i - 1) : SquaredDistance(i, den) < SquaredDistance(j, den)

SnappedAt(den) ==
    \E i \in 1..Len(rows) : FirstNearest(i, den) /\ neuron.soma = RowXYZ(rows[i])

\* C19: the candidate is tried at scale 1 before 1/8; a candidate outside the
\* bounding box widened by its largest dimension is rejected; accepted at
\* scale 1, the soma is the first row nearest to that candidate whatever the
\* 1/8 candidate is; the 1/8 candidate is used only when the other is
\* rejected, and with both rejected the soma is that of the later strategies
C19_SnapScales ==
    (Returned /\ Candidate # NULL) =>
        /\ Within(1) => SnappedAt(1)
        /\ (~Within(1) /\ Within(8)) => SnappedAt(8)
        /\ (~Within(1) /\ ~Within(8)) =>
               neuron.soma = _findSoma(rows, columns, NULL, NeuronBounds)

\* both candidates lie within the widened box and are nearest to different
\* rows: the soma is the row nearest to the candidate at scale 1
C19_Witness ==
    /\ Returned
    /\ Candidate # NULL
    /\ Within(1) /\ Within(8)
    /\ SnappedAt(1)
    /\ ~SnappedAt(8)

\* ------------------------------------------------ properties of computeScore
Mirrored == mirrorX(scoreArgs.answer, scoreArgs.midlineX[1])

\* C21: with a midline, the answer used is whichever of the answer and its
\* mirror image is nearer to the guess, and the distance returned is the
\* smaller of the two distances
C21_CloserHemisphere ==
    (Scored /\ scoreArgs.midlineX # NULL) =>
        /\ LocMirrored.distance < LocOriginal.distance =>
               /\ scoreResult.usedAnswer = Mirrored
               /\ scoreResult.distance = LocMirrored.distance
        /\ LocOriginal.distance <= LocMirrored.distance =>
               /\ scoreResult.usedAnswer = scoreArgs.answer
               /\ scoreResult.distance = LocOriginal.distance

\* the call's synapse guess is a number, and it or the actual count is not
\* above zero
NoSynapses ==
    /\ scoreArgs.synapseGuess # NULL
    /\ scoreArgs.synapseGuess[1] <= 0 \/ scoreArgs.synapseActual <= 0

BothPositive ==
    /\ scoreArgs.synapseGuess # NULL
    /\ scoreArgs.synapseGuess[1] > 0 /\ scoreArgs.synapseActual > 0

\* C22: a zero or negative synapse guess or actual count scores 0 synapse
\* points and the total is the location score; for a positive guess and
\* actual count the synapse score is within 0..MAX_SYNAPSE_POINTS and the
\* total is the sum of the two scores
C22_ZeroSynapses ==
    Scored =>
        /\ NoSynapses =>
               /\ computeSynapseScore(scoreArgs.synapseGuess,
                                      scoreArgs.synapseActual).score = 0
               /\ scoreResult.synapseScore = 0
               /\ scoreResult.score = scoreResult.locationScore
        /\ BothPositive =>
               /\ scoreResult.synapseScore \in 0..MAX_SYNAPSE_POINTS
               /\ scoreResult.score =
                      scoreResult.locationScore + scoreResult.synapseScore

\* a call with a negative guess and a negative count of the same size, which
\* scored its location only
C22_Witness ==
    /\ Scored
    /\ NoSynapses
    /\ scoreArgs.synapseGuess[1] < 0 /\ scoreArgs.synapseActual < 0
    /\ scoreResult.locationScore > 0
    /\ scoreResult.score = scoreResult.locationScore

\* ------------------------------------- ancestors in the rows and in the graph
\* the pairs <<parent row, row>> of the parent links
ParentPairs ==
    { <<ParentRow(i), i>> : i \in { j \in 1..Len(rows) : ParentRow(j) # 0 } }

\* row a is above row b along the parent links
AncestorInRows(a, b) == <<a, b>> \in Paths(ParentPairs, Len(rows))

\* the node of row a is above the node of row b along the edges of the graph
AncestorInGraph(a, b) ==
    <<NodeOf(a), NodeOf(b)>> \in Paths(EdgeSet(graph), Len(graph.nodes))

\* C25: for a well-formed input the reduced graph has, among the kept rows,
\* the ancestors of the rows: a kept row is above another in the graph if and
\* only if it is above it along the parent links; and the graph has as many
\* edges as kept rows less the roots
C25_AncestorsPreserved ==
    (BuiltBy("reduced") /\ WellFormed) =>
        /\ \A a, b \in KeptRows : AncestorInGraph(a, b) <=> AncestorInRows(a, b)
        /\ Len(graph.edges) =
               Cardinality(KeptRows) - Cardinality({ i \in 1..Len(rows) : IsRoot(i) })

\* a well-formed reduction in which a kept row is above another by two edges
\* of the graph, and the parent links between them pass over a dropped row
C25_Witness ==
    /\ BuiltBy("reduced")
    /\ WellFormed
    /\ \E a, b \in KeptRows :
           /\ AncestorInRows(a, b)
           /\ AncestorInGraph(a, b)
           /\ <<NodeOf(a), NodeOf(b)>> \notin EdgeSet(graph)
           /\ ParentRow(b) \notin KeptRows

\* ------------------------------------------------------- the end of the walk
\* row i is on a cycle of parent links
OnCycle(i) == AncestorInRows(i, i)

\* C26: the reduction returns for every row input, whatever its parent
\* links: no walk from a kept row goes round for ever through rows that are
\* not kept
C26_WalkTerminates ==
    (graph # NULL /\ graph.path = "reduced") => graph.status = "returned"

\* a reduction that returned for rows with a cycle of parent links, in which
\* the walk from a kept row on the cycle passed over a dropped row of the cycle
C26_Witness ==
    /\ BuiltBy("reduced")
    /\ \E i \in KeptRows :
           /\ OnCycle(i)
           /\ ParentRow(i) \notin KeptRows
           /\ OnCycle(ParentRow(i))

\* ------------------------------------------------- the soma among the nodes
SomaIsNode == \E k \in 1..Len(neuron.nodes) : neuron.nodes[k] = neuron.soma

SomaIsRow == \E i \in 1..Len(rows) : RowXYZ(rows[i]) = neuron.soma

\* C27 as stated: on both build paths a soma that is found is the position of
\* one of the nodes of the record
C27_SomaIsNode ==
    (Returned /\ neuron.soma # NULL) => SomaIsNode

\* C27: a soma that is found is the position of one of the input rows, and on
\* the verbatim path the position of one of the nodes of the record
C27_SomaIsRow ==
    (Returned /\ neuron.soma # NULL) =>
        /\ SomaIsRow
        /\ neuron.path = "full" => SomaIsNode

\* a reduction whose soma is the position of a row that was dropped
C27_Witness ==
    /\ Returned
    /\ neuron.path = "reduced"
    /\ neuron.soma # NULL
    /\ SomaIsRow
    /\ ~SomaIsNode

\* ------------------------------------------------- cors-proxy/worker.js: scores
\* how many submitScore requests the worker handles in a run
MaxRequests == 2

\* how far Date.now() advances in a run
MaxClock == 1

\* the histogram keeps the last HistogramCap scores
HistogramCap == 10000

Arr(items) == <<items>>

Chars(n, c) == [i \in 1..n |-> c]

DigitChars == {"0", "1", "2", "3", "4", "5", "6", "7", "8", "9"}

\* /^\d{4}-\d{2}-\d{2}$/.test(date)
DateMatches(date) ==
    /\ Len(date) = 10
    /\ \A i \in 1..10 : IF i \in {5, 8} THEN date[i] = "-" ELSE date[i] \in DigitChars

\* name.trim()
RECURSIVE TrimStart(_)
TrimStart(name) ==
    IF name # <<>> /\ Head(name) = " " THEN TrimStart(Tail(name)) ELSE name

Trim(name) == Reverse(TrimStart(Reverse(TrimStart(name))))

\* String(n) for n >= 0, as its decimal digits
RECURSIVE String(_)
String(n) ==
    IF n < 10 THEN <<n>> ELSE String(n \div 10) \o <<n % 10>>

\* parseInt of a string of decimal digits
RECURSIVE parseInt(_)
parseInt(digits) ==
    IF Len(digits) = 1 THEN digits[1]
    ELSE 10 * parseInt(SubSeq(digits, 1, Len(digits) - 1)) + digits[Len(digits)]

\* the first failing check of the body: the error the request is answered
\* with, "" when every check passes; a NULL body is one that is not JSON
BodyError(body) ==
    IF body = NULL THEN "Invalid JSON"
    ELSE IF body.mode \notin {"daily", "freeplay"} THEN "Invalid mode"
    ELSE IF body.date = NULL \/ ~DateMatches(body.date) THEN "Invalid date"
    ELSE IF body.name = NULL \/ Len(Trim(body.name[1])) = 0
            \/ Len(Trim(body.name[1])) > 20
         THEN "Name must be 1-20 characters"
    ELSE IF body.score = NULL \/ body.score[1] < 0 \/ body.score[1] > 50000
         THEN "Invalid score"
    ELSE IF body.roundScores = NULL \/ Len(body.roundScores[1]) # 5
         THEN "Invalid roundScores"
    ELSE ""

\* request.headers.get('CF-Connecting-IP') || 'unknown'
IpOf(header) == IF header = NULL THEN "unknown" ELSE header[1]

rateKey(mode, date, ip) == <<"rate", mode, date, ip>>

scoreKey(mode, date) == <<"scores", mode, date>>

histKey(mode) == <<"histogram", mode>>

maxSubmissions(mode) == IF mode = "daily" THEN 1 ELSE 10

\* existing.sort((a, b) => b.score - a.score), a stable sort: the entries in
\* descending order of score, entries of one score in the order they had
InsertByScore(sorted, e) ==
    LET k == Cardinality({ i \in 1..Len(sorted) : sorted[i].score >= e.score })
    IN  SubSeq(sorted, 1, k) \o <<e>> \o SubSeq(sorted, k + 1, Len(sorted))

RECURSIVE SortByScore(_)
SortByScore(s) ==
    IF s = <<>> THEN <<>>
    ELSE InsertByScore(SortByScore(SubSeq(s, 1, Len(s) - 1)), s[Len(s)])

\* existing.findIndex(e => e.timestamp === timestamp)
findIndex(existing, timestamp) ==
    IF \E i \in 1..Len(existing) : existing[i].timestamp = timestamp
    THEN MinOf({ i \in 1..Len(existing) : existing[i].timestamp = timestamp }) - 1
    ELSE -1

\* the rank the handler reports
Rank(existing) == findIndex(existing, existing[Len(existing)].timestamp) + 1

\* allScores.splice(0, allScores.length - HistogramCap) when it is longer
LastScores(allScores) ==
    IF Len(allScores) > HistogramCap
    THEN SubSeq(allScores, Len(allScores) - HistogramCap + 1, Len(allScores))
    ELSE allScores

corsError(msg, status) ==
    [status |-> status, error |-> msg, success |-> FALSE, rank |-> 0, total |-> 0]

Success(rank, total) ==
    [status |-> 200, error |-> "", success |-> TRUE, rank |-> rank, total |-> total]

\* ------------------------------------------------------- requests to the worker
Today == <<"2", "0", "2", "6", "-", "0", "2", "-", "2", "0">>

WorkerModes == {"daily", "freeplay"}

WorkerIps == {"unknown", "10.0.0.1"}

WorkerHeaders == {NULL, Arr("10.0.0.1")}

Body(mode, date, name, score, rounds) ==
    [mode |-> mode, date |-> date, name |-> name, score |-> score,
     roundScores |-> rounds]

FiveRounds == Arr(<<0, 0, 0, 0, 0>>)

GoodBody(mode, score) == Body(mode, Today, Arr(<<" ", "a", " ">>), Num(score), FiveRounds)

\* bodies that pass every check
GoodBodies == { GoodBody(mode, score) : mode \in WorkerModes, score \in {100, 200} }

\* bodies that fail one check each
BadBodies ==
    { Body("weekly", Today, Arr(<<"a">>), Num(100), FiveRounds),
      Body("daily", NULL, Arr(<<"a">>), Num(100), FiveRounds),
      Body("daily", SubSeq(Today, 1, 9), Arr(<<"a">>), Num(100), FiveRounds),
      Body("daily", [Today EXCEPT ![5] = "/"], Arr(<<"a">>), Num(100), FiveRounds),
      Body("daily", Today, NULL, Num(100), FiveRounds),
      Body("daily", Today, Arr(<<" ">>), Num(100), FiveRounds),
      Body("daily", Today, Arr(Chars(21, "a")), Num(100), FiveRounds),
      Body("daily", Today, Arr(<<"a">>), NULL, FiveRounds),
      Body("daily", Today, Arr(<<"a">>), Num(-1), FiveRounds),
      Body("daily", Today, Arr(<<"a">>), Num(50001), FiveRounds),
      Body("daily", Today, Arr(<<"a">>), Num(100), NULL),
      Body("daily", Today, Arr(<<"a">>), Num(100), Arr(<<0, 0, 0, 0>>)) }

Requests == 1..MaxRequests

\* the keys the requests of a run can name
Keys ==
    { rateKey(mode, Today, ip) : mode \in WorkerModes, ip \in WorkerIps }
        \cup { scoreKey(mode, Today) : mode \in WorkerModes }
        \cup { histKey(mode) : mode \in WorkerModes }

NoRequest ==
    [pc |-> "idle", body |-> NULL, ip |-> "", rateCount |-> 0, existing |-> <<>>,
     allScores |-> <<>>, response |-> NULL]

WorkerInit ==
    /\ GameInit
    /\ ParserIdle
    /\ ScoreIdle
    /\ PageIdle
    /\ kv = [k \in Keys |-> NULL]
    /\ reqs = [p \in Requests |-> NoRequest]
    /\ now = 0

WorkerRest == UNCHANGED <<gameVars, parserVars, scoreVars, pageVars>>

\* a request arrives: the body is parsed and checked, and the handler asks
\* the store for the rate count
Arrive(p) ==
    /\ reqs[p].pc = "idle"
    /\ \E body \in GoodBodies \cup BadBodies \cup {NULL}, header \in WorkerHeaders :
           reqs' = [reqs EXCEPT ![p] =
               IF BodyError(body) # ""
               THEN [@ EXCEPT !.pc = "done", !.body = body, !.ip = IpOf(header),
                              !.response = corsError(BodyError(body), 400)]
               ELSE [@ EXCEPT !.pc = "getRate", !.body = body, !.ip = IpOf(header)]]
    /\ UNCHANGED <<kv, now>>
    /\ WorkerRest

\* the rate count arrives: the request is turned away at the limit, or the
\* handler asks the store for the scores
GetRate(p) ==
    /\ reqs[p].pc = "getRate"
    /\ LET r == reqs[p]
           count == kv[rateKey(r.body.mode, r.body.date, r.ip)]
           rateCount == parseInt(IF count = NULL THEN <<0>> ELSE count)
       IN  reqs' = [reqs EXCEPT ![p] =
               IF rateCount >= maxSubmissions(r.body.mode)
               THEN [@ EXCEPT !.pc = "done", !.rateCount = rateCount,
                              !.response = corsError(
                                  IF r.body.mode = "daily"
                                  THEN "You already submitted a daily score today"
                                  ELSE "Too many submissions today", 429)]
               ELSE [@ EXCEPT !.pc = "getScores", !.rateCount = rateCount]]
    /\ UNCHANGED <<kv, now>>
    /\ WorkerRest

\* the scores arrive: the handler appends its entry, sorts, and hands the
\* list to the store
GetScoreList(p) ==
    /\ reqs[p].pc = "getScores"
    /\ LET r == reqs[p]
           existing == kv[scoreKey(r.body.mode, r.body.date)]
           entry == [name |-> Trim(r.body.name[1]), score |-> r.body.score[1],
                     roundScores |-> r.body.roundScores[1], timestamp |-> now]
       IN  reqs' = [reqs EXCEPT ![p].pc = "putScores",
                                ![p].existing = SortByScore(Append(existing, entry))]
    /\ UNCHANGED <<kv, now>>
    /\ WorkerRest

\* the store takes the list; the handler asks for the histogram
PutScoreList(p) ==
    /\ reqs[p].pc = "putScores"
    /\ kv' = [kv EXCEPT ![scoreKey(reqs[p].body.mode, reqs[p].body.date)] =
                            reqs[p].existing]
    /\ reqs' = [reqs EXCEPT ![p].pc = "getHistogram"]
    /\ UNCHANGED now
    /\ WorkerRest

\* the histogram arrives: the handler appends its score and hands the
\* histogram to the store
GetHistogram(p) ==
    /\ reqs[p].pc = "getHistogram"
    /\ LET r == reqs[p]
           allScores == kv[histKey(r.body.mode)]
       IN  reqs' = [reqs EXCEPT ![p].pc = "putHistogram",
                                ![p].allScores =
                                    LastScores(Append(allScores, r.body.score[1]))]
    /\ UNCHANGED <<kv, now>>
    /\ WorkerRest

\* the store takes the histogram; the handler hands it the new rate count
PutHistogram(p) ==
    /\ reqs[p].pc = "putHistogram"
    /\ kv' = [kv EXCEPT ![histKey(reqs[p].body.mode)] = reqs[p].allScores]
    /\ reqs' = [reqs EXCEPT ![p].pc = "putRate"]
    /\ UNCHANGED now
    /\ WorkerRest

\* the store takes the rate count; the handler answers with rank and total
PutRate(p) ==
    /\ reqs[p].pc = "putRate"
    /\ LET r == reqs[p]
       IN  /\ kv' = [kv EXCEPT ![rateKey(r.body.mode, r.body.date, r.ip)] =
                                   String(r.rateCount + 1)]
           /\ reqs' = [reqs EXCEPT ![p].pc = "done",
                                   ![p].response =
                                       Success(Rank(r.existing), Len(r.existing))]
    /\ UNCHANGED now
    /\ WorkerRest

\* a millisecond passes
Tick ==
    /\ now < MaxClock
    /\ now' = now + 1
    /\ UNCHANGED <<kv, reqs>>
    /\ WorkerRest

NextWorker ==
    \/ \E p \in Requests : Arrive(p)
    \/ \E p \in Requests : GetRate(p)
    \/ \E p \in Requests : GetScoreList(p)
    \/ \E p \in Requests : PutScoreList(p)
    \/ \E p \in Requests : GetHistogram(p)
    \/ \E p \in Requests : PutHistogram(p)
    \/ \E p \in Requests : PutRate(p)
    \/ Tick

SpecWorker == WorkerInit /\ [][NextWorker]_vars

\* ------------------------------------------------------ properties of the scores
Done(p) == reqs[p].pc = "done"

\* the request was answered with success: true
Accepted(p) == Done(p) /\ reqs[p].response.success

\* the accepted requests of a mode and day
AcceptedIn(mode, date) ==
    { p \in Requests :
        Accepted(p) /\ reqs[p].body.mode = mode /\ reqs[p].body.date = date }

AcceptedFrom(mode, date, ip) == { p \in AcceptedIn(mode, date) : reqs[p].ip = ip }

\* the request passed the checks of its body and was turned away
TurnedAway(p) == Done(p) /\ BodyError(reqs[p].body) = "" /\ ~Accepted(p)

\* C28: of the submissions of one mode from one IP for one date no more are
\* accepted than the limit of the mode, one for 'daily', however the requests
\* interleave, and every other one is answered with status 429
C28_OnePerIpPerDate ==
    /\ \A mode \in WorkerModes, ip \in WorkerIps :
           Cardinality(AcceptedFrom(mode, Today, ip)) <= maxSubmissions(mode)
    /\ \A p \in Requests : TurnedAway(p) => reqs[p].response.status = 429

QuietStore == \A p \in Requests : reqs[p].pc \in {"idle", "done"}

SortedByScore(list) ==
    \A i, j \in 1..Len(list) : i < j => list[i].score >= list[j].score

\* C29: once no request is in flight, the list stored for a mode and date has
\* one entry for each accepted request of that mode and date, and is in
\* descending order of score
C29_NoScoreLost ==
    QuietStore =>
        \A mode \in WorkerModes :
            LET list == kv[scoreKey(mode, Today)]
            IN  /\ Len(list) = Cardinality(AcceptedIn(mode, Today))
                /\ SortedByScore(list)

\* the place, counted from 1, of the entry of request p in the list it sorted:
\* behind every entry of its score or a higher one
PlaceOfNew(p) ==
    Cardinality({ i \in 1..Len(reqs[p].existing) :
                    reqs[p].existing[i].score >= reqs[p].body.score[1] })

\* C30: an accepted request is told the place of its entry in the sorted list
\* as rank and the length of that list as total
C30_RankOfNewEntry ==
    \A p \in Requests :
        Accepted(p) =>
            /\ reqs[p].response.total = Len(reqs[p].existing)
            /\ reqs[p].response.rank = PlaceOfNew(p)

\* ---------------------------------------------------- main.js: the game flow
\* sliderToSynapses(val) = round(10 * 20000 ^ (val / 1000)), at the ends of the
\* slider and at the middle, where loadRound puts it
sliderToSynapses(val) ==
    CASE val = 0 -> 10
      [] val = 500 -> 1414
      [] val = 1000 -> 200000

\* the middle of the slider
SliderReset == 500

\* the neurons of the daily manifest and of a free-play manifest, whose file
\* names differ
DailyNeurons == Range(1, ROUNDS_PER_GAME)

FreeplayNeurons == Range(ROUNDS_PER_GAME + 1, NumFiles)

\* what loadDailyManifest and loadOnlineManifest resolve to: the bounds and
\* the largest distance on a small scale
Manifest(mode) ==
    [date |-> IF mode = "daily" THEN Arr(Today) ELSE NULL,
     neurons |-> IF mode = "daily" THEN DailyNeurons ELSE FreeplayNeurons,
     brainBounds |-> [min |-> <<0, 0, 0>>, max |-> <<8, 8, 8>>],
     maxDistance |-> 16]

\* the rows of a skeleton of three nodes
PageRows == << <<1, 0, 0, 0, 5, -1>>, <<2, 10, 0, 0, 3, 1>>, <<3, 20, 0, 0, 2, 2>> >>

\* the skeletons a fetch can bring: the three nodes, or no rows
FetchedRows == { PageRows, <<>> }

\* what loadOnlineNeuron resolves to, of which the page reads the answer and
\* the synapse counts
NeuronData(parsed) == [answer |-> parsed.answer, pre |-> 1000, post |-> 414]

\* err.message includes '401', 'jwt' or 'credentials'
FetchErrors == { [isAuth |-> TRUE], [isAuth |-> FALSE] }

PageInit ==
    /\ GameInit
    /\ ParserIdle
    /\ ScoreIdle
    /\ WorkerIdle
    /\ screen = "screen-start"
    /\ loadingText = "Loading brain mesh..."
    /\ task = "none"
    /\ gameMode = "daily"
    /\ manifest = NULL
    /\ currentNeuronData = NULL
    /\ stored = NULL
    /\ signedIn \in BOOLEAN

PageRest == UNCHANGED <<parserVars, scoreVars, workerVars>>

\* the first lines of startGame, up to the wait for the manifest
startGame(mode) ==
    /\ gameMode' = mode
    /\ screen' = "screen-loading"
    /\ loadingText' = IF mode = "daily" THEN "Loading daily challenge..."
                      ELSE "Querying neuPrint for neurons..."
    /\ task' = "manifest"
    /\ UNCHANGED <<manifest, currentNeuronData, stored, signedIn, gameVars>>
    /\ PageRest

\* the buttons are enabled while the player is signed in
ClickDaily ==
    /\ screen = "screen-start" /\ task = "none" /\ signedIn
    /\ startGame("daily")

ClickFreeplay ==
    /\ screen = "screen-start" /\ task = "none" /\ signedIn
    /\ startGame("freeplay")

\* the first lines of loadRound, up to the wait for the neuron
loadRound ==
    /\ screen' = "screen-loading"
    /\ loadingText' = "Fetching neuron"
    /\ task' = "neuron"

\* the manifest arrives: the game starts and the first round is loaded
ManifestLoaded ==
    /\ task = "manifest"
    /\ manifest' = Manifest(gameMode)
    /\ \E draw \in Draws : startNewGame(Manifest(gameMode).neurons, draw)
    /\ loadRound
    /\ UNCHANGED <<gameMode, currentNeuronData, stored, signedIn>>
    /\ PageRest

\* the manifest fails to load: the error shows for a while
ManifestFailed ==
    /\ task = "manifest"
    /\ \E err \in FetchErrors :
           /\ loadingText' = IF err.isAuth
                             THEN "Token expired or invalid. Please sign in again."
                             ELSE "Error"
           /\ signedIn' = IF err.isAuth THEN FALSE ELSE signedIn
    /\ task' = "startPause"
    /\ UNCHANGED <<screen, gameMode, manifest, currentNeuronData, stored, gameVars>>
    /\ PageRest

\* the while is over: startGame shows the start screen and returns
StartPauseOver ==
    /\ task = "startPause"
    /\ screen' = "screen-start"
    /\ task' = "none"
    /\ UNCHANGED <<loadingText, gameMode, manifest, currentNeuronData, stored,
                   signedIn, gameVars>>
    /\ PageRest

\* the skeleton arrives and parses: the round is shown
NeuronLoaded ==
    /\ task = "neuron"
    /\ \E rs \in FetchedRows :
           LET parsed == parseSkeletonToNeuron(rs, NULL, NULL)
           IN  /\ parsed.status = "returned"
               /\ currentNeuronData' = NeuronData(parsed)
    /\ screen' = "screen-game"
    /\ currentGuess' = NULL
    /\ currentSynapseGuess' = Num(sliderToSynapses(SliderReset))
    /\ call' = Call("setSynapseGuess", UNDEFINED)
    /\ task' = "none"
    /\ UNCHANGED <<loadingText, gameMode, manifest, stored, signedIn,
                   seenNeuronFiles, currentRound, roundScores, totalScore,
                   selectedNeurons, phase, strays>>
    /\ PageRest

\* the fetch fails for the token: the player is signed out and the message
\* shows for a while
NeuronAuthFailed ==
    /\ task = "neuron"
    /\ loadingText' = "Token expired or invalid. Please sign in again."
    /\ signedIn' = FALSE
    /\ task' = "roundPause"
    /\ UNCHANGED <<screen, gameMode, manifest, currentNeuronData, stored, gameVars>>
    /\ PageRest

\* the while is over: loadRound shows the start screen and returns
RoundPauseOver ==
    /\ task = "roundPause"
    /\ screen' = "screen-start"
    /\ task' = "none"
    /\ UNCHANGED <<loadingText, gameMode, manifest, currentNeuronData, stored,
                   signedIn, gameVars>>
    /\ PageRest

\* the fetch fails for another reason, or the rows do not parse: loadRound
\* throws the error again, which neither startGame nor nextRound catches
NeuronFailed ==
    /\ task = "neuron"
    /\ \/ \E err \in FetchErrors : ~err.isAuth
       \/ \E rs \in FetchedRows : parseSkeletonToNeuron(rs, NULL, NULL).status = "threw"
    /\ loadingText' = "Failed to load neuron. Retrying..."
    /\ task' = "none"
    /\ UNCHANGED <<screen, gameMode, manifest, currentNeuronData, stored, signedIn,
                   gameVars>>
    /\ PageRest

onGuessPlaced ==
    /\ screen = "screen-game"
    /\ \E position \in GuessPositions : setGuess(position)
    /\ UNCHANGED pageVars
    /\ PageRest

submitGuess ==
    /\ screen = "screen-game"
    /\ currentGuess # NULL /\ currentSynapseGuess # NULL
    /\ submitRound(currentNeuronData.answer, manifest.maxDistance,
                   currentNeuronData.pre + currentNeuronData.post,
                   Num((manifest.brainBounds.min[1] + manifest.brainBounds.max[1]) \div 2))
    /\ screen' = "screen-result"
    /\ UNCHANGED <<strays, loadingText, task, gameMode, manifest, currentNeuronData,
                   stored, signedIn>>
    /\ PageRest

\* what showFinalScore saves of a daily game
DailyResult ==
    [totalScore |-> totalScore, roundScores |-> roundScores, date |-> manifest.date[1]]

\* the Next button: the final score after the last round, the next round
\* otherwise
ClickNext ==
    /\ screen = "screen-result"
    /\ nextRound
    /\ IF PhaseOfRound(currentRound + 1) = "final"
       THEN /\ screen' = "screen-final"
            /\ stored' = IF gameMode = "daily" /\ manifest.date # NULL
                         THEN DailyResult ELSE stored
            /\ UNCHANGED <<loadingText, task>>
       ELSE /\ loadRound
            /\ UNCHANGED stored
    /\ UNCHANGED <<strays, gameMode, manifest, currentNeuronData, signedIn>>
    /\ PageRest

ClickReplay ==
    /\ screen = "screen-final"
    /\ screen' = "screen-start"
    /\ UNCHANGED <<loadingText, task, gameMode, manifest, currentNeuronData, stored,
                   signedIn, gameVars>>
    /\ PageRest

\* the player enters a token on the start screen
SetToken ==
    /\ screen = "screen-start" /\ ~signedIn
    /\ signedIn' = TRUE
    /\ UNCHANGED <<screen, loadingText, task, gameMode, manifest, currentNeuronData,
                   stored, gameVars>>
    /\ PageRest

\* the player signs out on the start screen
ClickSignOut ==
    /\ screen = "screen-start" /\ signedIn
    /\ signedIn' = FALSE
    /\ UNCHANGED <<screen, loadingText, task, gameMode, manifest, currentNeuronData,
                   stored, gameVars>>
    /\ PageRest

\* what the network and the timers do
PageArrivals ==
    \/ ManifestLoaded
    \/ ManifestFailed
    \/ StartPauseOver
    \/ NeuronLoaded
    \/ NeuronAuthFailed
    \/ RoundPauseOver
    \/ NeuronFailed

NextPage ==
    \/ ClickDaily
    \/ ClickFreeplay
    \/ ManifestLoaded
    \/ ManifestFailed
    \/ StartPauseOver
    \/ NeuronLoaded
    \/ NeuronAuthFailed
    \/ RoundPauseOver
    \/ NeuronFailed
    \/ onGuessPlaced
    \/ submitGuess
    \/ ClickNext
    \/ ClickReplay
    \/ SetToken
    \/ ClickSignOut

SpecPage == PageInit /\ [][NextPage]_vars

\* every request is answered and every timer fires
FairSpecPage == SpecPage /\ WF_vars(PageArrivals)

\* ----------------------------------------------------- properties of the flow
\* C23: a click on the Daily button while the result of today's daily game is
\* stored shows the final screen, fetches no manifest and leaves the game as
\* it is; only without a stored result does the click start a daily game
C23_StoredResultReshown ==
    [][ClickDaily =>
            IF stored # NULL
            THEN screen' = "screen-final" /\ task' = "none" /\ UNCHANGED gameVars
            ELSE task' = "manifest" /\ gameMode' = "daily"]_vars

\* the neuron of the round failed to load, for another reason than the token
LoadFailed ==
    screen = "screen-loading" /\ loadingText = "Failed to load neuron. Retrying..."

\* C24: after a failure to load or parse the neuron of the round, other than
\* for the token, the page leaves the loading screen in the end, for a round
\* to guess or for the start screen
C24_LoadFailureRecovers ==
    LoadFailed ~> (screen \in {"screen-game", "screen-start"})
====
